---- MODULE Spec2Model ----
(***************************************************************************)
(* Model of the retrieval-augmented chat backend (chatbot-backend).         *)
(*                                                                         *)
(* Texts are sequences of tokens (a token is a string; the token " " is     *)
(* whitespace), so that strip(), concatenation and slicing are computed.   *)
(* The persistent state is the chat_sessions directory (one JSON file per   *)
(* session key), the metadata map, the vector index and the docs folder.   *)
(* One /chat request is in flight at a time: the handlers are async defs    *)
(* without awaits, so each runs to completion on the event loop; pc tracks  *)
(* the position of the request inside chat() across its external calls.     *)
(***************************************************************************)
EXTENDS Integers, Sequences, FiniteSets, TLC

VARIABLES
    chat_sessions,      \* chat_sessions/<key>.json : key -> NoFile or list of JSON dicts
    mtimes,             \* the keys that have a file, the most recently written first
    today,              \* the calendar day get_timestamp() reports
    created,            \* keys returned by create_chat so far, with the day of the call
    pc,                 \* position of the in-flight /chat request
    req,                \* the ChatRequest being served
    vectordb,           \* the Chroma handle chat() received ("Chroma") or None
    chat_history,       \* the in-memory message list chat() mutates
    loaded_history,     \* the list load_chat_history_json returned for this request
    topic_analyzer_output, \* the parsed planner output (list of items)
    idx,                \* position of the execution loop in topic_analyzer_output
    executed_pairs,     \* set of pair_id strings already executed in this turn
    retrieved_context,  \* running document context buffer
    web_context,        \* running web context buffer
    calls,              \* external calls made by this turn, in order
    response_content,   \* the answer chat() returns
    resp,               \* the last HTTP response
    metadata,           \* metadata.json : set of [filename, id] entries as a function
    collection,         \* the Chroma collection: sequence of [id, source] chunks
    docs_dir,           \* filenames present under ../docs
    vectorstore_exists, \* whether the VECTORSTORE_PATH directory exists
    rt_pc,              \* position of the save/load round-trip caller
    rt_saved,           \* the message list handed to the last save_chat_history_json
    inflight,           \* per server process: the /chat request it serves, when the
                        \* application runs as several processes over one directory
    docops              \* per server process: the document request it serves

sessionVars == <<chat_sessions, mtimes, today, created>>
turnVars == <<pc, req, vectordb, chat_history, loaded_history, topic_analyzer_output,
              idx, executed_pairs, retrieved_context, web_context, calls,
              response_content>>
docVars == <<metadata, collection, docs_dir, vectorstore_exists>>
rtVars == <<rt_pc, rt_saved>>
workerVars == <<inflight, docops>>
vars == <<sessionVars, turnVars, docVars, rtVars, workerVars, resp>>

-----------------------------------------------------------------------------
(* Values *)

None == [kind |-> "None"]
NoFile == [kind |-> "NoFile"]
File(data) == [kind |-> "file", data |-> data]

\* Python str.strip(): drop leading and trailing whitespace tokens.
RECURSIVE LStrip(_)
LStrip(s) == IF s # <<>> /\ Head(s) = " " THEN LStrip(Tail(s)) ELSE s

RECURSIVE RStrip(_)
RStrip(s) == IF s # <<>> /\ s[Len(s)] = " " THEN RStrip(SubSeq(s, 1, Len(s) - 1)) ELSE s

Strip(s) == RStrip(LStrip(s))

\* Python slice s[:n]
Prefix(s, n) == SubSeq(s, 1, IF Len(s) < n THEN Len(s) ELSE n)

-----------------------------------------------------------------------------
(* langchain messages and their JSON form (utils/save_chat.py) *)

StrContent(text) == [kind |-> "str", text |-> text]
ListContent(items) == [kind |-> "list", items |-> items]
TextItem(text) == [type |-> "text", text |-> text]
ImageItem(url) == [type |-> "image_url", url |-> url]

HumanMessage(content) == [type |-> "human", content |-> content]
AIMessage(text) == [type |-> "ai", content |-> StrContent(text)]

\* image_data argument forms
ImageStr(u) == [kind |-> "str", v |-> u]
ImageList(us) == [kind |-> "list", v |-> us]

\* the elements a Python for-loop over image_data_array visits: a list gives
\* its elements, a str gives its characters as one-character strings
ImageIter(image_data_array) ==
    IF image_data_array.kind = "list" THEN image_data_array.v
    ELSE IF image_data_array.kind = "str"
         THEN [i \in 1..Len(image_data_array.v) |-> <<image_data_array.v[i]>>]
    ELSE <<>>

\* Python truthiness of an image_data value: a non-empty list or str
ImageTruthy(image_data) ==
    \/ image_data.kind = "list" /\ image_data.v # <<>>
    \/ image_data.kind = "str" /\ image_data.v # <<>>

create_human_message_with_images(content, image_data_array) ==
    IF ImageTruthy(image_data_array)
    THEN HumanMessage(ListContent(
             <<TextItem(content)>> \o
             [i \in 1..Len(ImageIter(image_data_array)) |->
                 ImageItem(ImageIter(image_data_array)[i])]))
    ELSE HumanMessage(StrContent(content))

\* text_content after the loop at save_chat.py:25-31: the text of the last text item
RECURSIVE LastText(_)
LastText(items) ==
    IF items = <<>> THEN <<>>
    ELSE IF items[Len(items)].type = "text" THEN items[Len(items)].text
    ELSE LastText(SubSeq(items, 1, Len(items) - 1))

\* image_data_list after the loop: the truthy urls of the image_url items, in order
RECURSIVE ImageUrls(_)
ImageUrls(items) ==
    IF items = <<>> THEN <<>>
    ELSE (IF Head(items).type = "image_url" /\ Head(items).url # <<>>
          THEN <<Head(items).url>> ELSE <<>>) \o ImageUrls(Tail(items))

\* a variant that keeps one image per turn: what msg_dict["image_data"] would
\* hold if the several-images case were not stored as a list
SavedImageDataFirstOnly(image_data_list) ==
    IF image_data_list = <<>> THEN [kind |-> "absent"]
    ELSE ImageStr(image_data_list[1])

\* msg_dict["image_data"] at save_chat.py:35-36: absent without images, the url
\* itself for one image, the list for several
SavedImageData(image_data_list) ==
    IF image_data_list = <<>> THEN [kind |-> "absent"]
    ELSE IF Len(image_data_list) > 1 THEN ImageList(image_data_list)
    ELSE ImageStr(image_data_list[1])

MsgToDict(message) ==
    IF message.content.kind = "list" /\ message.type = "human"
    THEN [type |-> message.type,
          content |-> StrContent(LastText(message.content.items)),
          image_data |-> SavedImageData(ImageUrls(message.content.items))]
    ELSE [type |-> message.type, content |-> message.content,
          image_data |-> [kind |-> "absent"]]

\* json.dump of the msg dicts into the file
save_chat_history_json(history) ==
    File([i \in 1..Len(history) |-> MsgToDict(history[i])])

DictToMsg(d) ==
    IF d.type = "human"
    THEN IF ImageTruthy(d.image_data)
         THEN LET image_data_list ==
                      IF d.image_data.kind = "list" THEN d.image_data.v
                      ELSE <<d.image_data.v>>
              IN HumanMessage(ListContent(
                     <<TextItem(d.content.text)>> \o
                     [i \in 1..Len(image_data_list) |-> ImageItem(image_data_list[i])]))
         ELSE HumanMessage(d.content)
    ELSE AIMessage(d.content.text)

load_chat_history_json(file) ==
    IF file = NoFile THEN <<>>
    ELSE [i \in 1..Len(file.data) |-> DictToMsg(file.data[i])]

-----------------------------------------------------------------------------
(* Session keys and chat names (utils/session_state.py, utils/save_chat.py) *)

Digits == <<"0", "1", "2", "3", "4", "5", "6", "7", "8", "9">>

DigitValue(c) == (CHOOSE i \in 1..10 : Digits[i] = c) - 1

IsDigit(c) == \E i \in 1..10 : Digits[i] = c

\* str(n) for n >= 0, as a character sequence
RECURSIVE FormatInt(_)
FormatInt(n) ==
    IF n < 10 THEN <<Digits[n + 1]>>
    ELSE FormatInt(n \div 10) \o <<Digits[(n % 10) + 1]>>

\* the value int(s) computes for a digit string
RECURSIVE IntValue(_)
IntValue(s) ==
    IF s = <<>> THEN 0
    ELSE 10 * IntValue(SubSeq(s, 1, Len(s) - 1)) + DigitValue(s[Len(s)])

\* whether int(s) succeeds (otherwise ValueError)
IntParses(s) == s # <<>> /\ \A i \in 1..Len(s) : IsDigit(s[i])

\* a session key "DD-MM-YYYY-<tail>": the date it carries and the characters after
\* the last '-'; the file of the key is chat_sessions/<key>.json
SessionKey(date, tail) == [date |-> date, tail |-> tail]

\* f"{base_timestamp}-{n}"
ChatName(base_timestamp, n) == SessionKey(base_timestamp, FormatInt(n))

\* os.listdir("chat_sessions"): the keys that have a file
ExistingChats(sessions) == {k \in DOMAIN sessions : sessions[k] # NoFile}

\* os.path.getmtime order of the directory after open(<key>.json, "w") and after
\* os.remove(<key>.json)
RECURSIVE Without(_, _)
Without(order, k) ==
    IF order = <<>> THEN <<>>
    ELSE (IF Head(order) = k THEN <<>> ELSE <<Head(order)>>) \o Without(Tail(order), k)

Written(order, k) == <<k>> \o Without(order, k)

\* chat_name.split('-')[-1].split('.')[0] of the file name <key>.json
CounterText(k) == k.tail

RECURSIVE SetMax(_)
SetMax(S) ==
    IF S = {} THEN 0
    ELSE LET x == CHOOSE x \in S : TRUE
             m == SetMax(S \ {x})
         IN IF x > m THEN x ELSE m

\* a variant that numbers the new chat by how many chats of today exist
get_new_chat_name_by_count(sessions, base_timestamp) ==
    LET today_chats == {k \in ExistingChats(sessions) : k.date = base_timestamp}
    IN ChatName(base_timestamp, Cardinality(today_chats) + 1)

\* 1 for the first chat of the day, else the highest counter of today's files + 1;
\* a file name whose counter does not parse is passed over
get_new_chat_name(sessions, base_timestamp) ==
    LET today_chats == {k \in ExistingChats(sessions) : k.date = base_timestamp}
        counts == {IntValue(CounterText(k)) :
                      k \in {c \in today_chats : IntParses(CounterText(c))}}
    IN IF today_chats = {} THEN ChatName(base_timestamp, 1)
       ELSE ChatName(base_timestamp, SetMax(counts) + 1)

-----------------------------------------------------------------------------
(* Bounds and input sets *)

MaxDay == 2            \* calendar days the model lives through
MaxCount == 2          \* highest chat counter create_chat may reach
MaxStored == 3         \* turns a session file may hold when a further /chat is served
MaxStoredHttp == 3     \* the same, in the specification of the whole HTTP surface
MaxPlan == 2           \* items in a planner output (single-turn specification)
MaxCreates == 2        \* create_chat calls the log of returned keys follows
MaxStoredRace == 3     \* the same as MaxStored, where several processes serve /chat
ErrorExcerptLen == 100 \* str(e)[:100]

Days == 1..MaxDay

\* session keys a client may send, besides the keys create_chat hands out
AllKeys == {SessionKey(d, FormatInt(n)) : d \in Days, n \in 1..MaxCount}
               \cup {SessionKey(1, <<"x">>)}

Queries == {<<"q">>, <<" ">>, <<>>}
Errors == {<<"E">>}
Completions == {<<"A", " ">>}
SearchTypeLists == {<<>>, <<<<"Web", " ">>, <<"academic">>>>, <<<<"images">>>>}

PlanQueries == {<<"a">>, <<"a", " ">>, <<"b">>}
PlanTools == {<<"retrieve">>, <<" ", "web">>}
PairItem(query, tool) == [kind |-> "pair", query |-> query, tool |-> tool]
MalformedItem == [kind |-> "malformed"]
PlanItems == {PairItem(q, t) : q \in PlanQueries, t \in PlanTools} \cup {MalformedItem}

SeqsUpTo(S, n) == UNION {[1..k -> S] : k \in 0..n}

-----------------------------------------------------------------------------
(* chat(): tool setup, prompts and results (utils/chatbot.py, utils/web_search.py) *)

SEARCH_TOOL_MAP == {<<"web">>, <<"academic">>, <<"social">>}

\* str.lower() on the tokens the model uses
LowerToken(t) == IF t = "Web" THEN "web" ELSE t
Lower(s) == [i \in 1..Len(s) |-> LowerToken(s[i])]

\* search_types after the defaulting at chatbot.py:186-187
EffectiveSearchTypes(use_web_search, search_types) ==
    IF use_web_search /\ search_types = <<>> THEN <<<<"web">>>> ELSE search_types

\* a variant of the tool setup that adds every search tool when web search is on
ToolNamesAllSearch(use_rag, vdb, use_web_search, search_types) ==
    (IF use_rag /\ vdb # None THEN {<<"retrieve">>} ELSE {})
        \cup (IF use_web_search THEN SEARCH_TOOL_MAP ELSE {})

\* the keys of tool_name_to_tool after the tool setup
ToolNames(use_rag, vdb, use_web_search, search_types) ==
    LET types == EffectiveSearchTypes(use_web_search, search_types)
    IN (IF use_rag /\ vdb # None THEN {<<"retrieve">>} ELSE {})
       \cup (IF use_web_search /\ types # <<>>
             THEN {Strip(Lower(types[i])) : i \in 1..Len(types)} \cap SEARCH_TOOL_MAP
             ELSE {})

ReqTools(r, vdb) == ToolNames(r.enable_rag, vdb, r.enable_web_search, r.search_types)

PleaseProvide == <<"Please provide a query or image.">>

Apology(e) ==
    <<"Sorry, an error occurred while processing your request: ">>
        \o Prefix(e, ErrorExcerptLen) \o <<"...">>

FinalContext(retrieved, web) ==
    <<"Information found from documents and web searches:">>
        \o (IF retrieved # <<>> THEN <<"From documents (RAG):">> \o retrieved ELSE <<>>)
        \o (IF web # <<>> THEN <<"From web searches:">> \o web ELSE <<>>)

ContextText(user_query, final_context) ==
    <<"Based on the following information, answer my question: ">> \o user_query
        \o <<"Context from sources:">> \o final_context

SystemMessage(text) == [type |-> "system", content |-> StrContent(text)]

\* image_data_array = image_data if list else ([image_data] if image_data else None)
ImageArray(image_data) ==
    IF image_data.kind = "list" THEN image_data
    ELSE IF ImageTruthy(image_data) THEN ImageList(<<image_data.v>>)
    ELSE None

\* what the retriever returns for a sub-query
Retrieved(query) == <<[page_content |-> <<"doc:">> \o query, source |-> "f1"]>>

\* perform_tavily_search: a RequestException is caught and gives [], any other
\* failure propagates, a response gives the normalized results
perform_tavily_search(query, search_type, outcome) ==
    IF outcome = "request_exception" THEN [kind |-> "ok", result |-> <<>>]
    ELSE IF outcome = "error" THEN [kind |-> "raise", error |-> <<"E">>]
    ELSE [kind |-> "ok",
          result |-> <<[title |-> "t", url |-> "u",
                        content |-> search_type \o <<":">> \o query]>>]

\* tool_func.invoke({"user_query": query})
InvokeOutcome(tool_name, query, outcome) ==
    IF tool_name = <<"retrieve">>
    THEN IF outcome = "results" THEN [kind |-> "ok", result |-> Retrieved(query)]
         ELSE [kind |-> "raise", error |-> <<"E">>]
    ELSE perform_tavily_search(query, tool_name, outcome)

ToolOutcomes == {"results", "request_exception", "error"}

\* the text a result list adds to its context buffer
RECURSIVE ResultText(_, _)
ResultText(result, field) ==
    IF result = <<>> THEN <<>>
    ELSE Head(result)[field] \o <<"NL">> \o ResultText(Tail(result), field)

\* pair_id = f"{tool_name}:{query}"
PairId(tool_name, query) == tool_name \o <<":">> \o query

\* a variant of the bookkeeping that remembers a pair only once its call returned
MarkExecutedOnSuccess(executed, pair_id, outcome) ==
    IF outcome.kind = "ok" THEN executed \cup {pair_id} ELSE executed

\* executed_pairs after the bookkeeping at chatbot.py:341-343, which precedes the call
MarkExecuted(executed, pair_id, outcome) == executed \cup {pair_id}

\* a variant without the try/except inside the loop
CaughtNowhere(outcome) == FALSE

\* whether the try/except inside the loop (chatbot.py:340,371) catches the failure
CaughtInLoop(outcome) == outcome.kind = "raise"

\* a variant that records the prompt sent to the model
HistoryQueryAugmented(user_query, context_text) == context_text

\* the text of the human turn the tools branch appends to the history
\* (chatbot.py:440): the original query, not the prompt sent to the model
HistoryQuery(user_query, context_text) == user_query

\* a variant that saves the history although chat() raised
StoredAfterRaiseSaved(sessions, session_key, history) ==
    [sessions EXCEPT ![session_key] = save_chat_history_json(history)]

\* the sessions directory after chat() raised inside chat_with_pdf: the save at
\* main.py:99 is never reached
StoredAfterRaise(sessions, session_key, history) == sessions

\* a variant of the except branch that records the apology without the query
ExceptHistoryAnswerOnly(history, user_query, image_data, e) ==
    Append(history, AIMessage(Apology(e)))

\* the except branch at chatbot.py:443-451: the answer and the history it leaves
ExceptAnswer(e) == Apology(e)
ExceptHistory(history, user_query, image_data, e) ==
    history \o <<create_human_message_with_images(user_query, image_data),
                 AIMessage(ExceptAnswer(e))>>

-----------------------------------------------------------------------------
(* Initial state: empty sessions directory, no request in flight.  The      *)
(* vector store directory is either absent or left by earlier uploads.       *)

\* the server processes sharing chat_sessions/, ../docs and the vector store
Workers == {1, 2}
IdleWorker == [op |-> "none", pc |-> "idle"]

IdleTurn ==
    /\ pc = "idle"
    /\ req = None
    /\ vectordb = None
    /\ chat_history = <<>>
    /\ loaded_history = <<>>
    /\ topic_analyzer_output = <<>>
    /\ idx = 0
    /\ executed_pairs = {}
    /\ retrieved_context = <<>>
    /\ web_context = <<>>
    /\ calls = <<>>
    /\ response_content = <<>>

Init ==
    /\ chat_sessions = [k \in AllKeys |-> NoFile]
    /\ mtimes = <<>>
    /\ today = 1
    /\ created = <<>>
    /\ IdleTurn
    /\ resp = None
    /\ metadata = <<>>
    /\ collection = <<>>
    /\ docs_dir = {}
    /\ vectorstore_exists \in BOOLEAN
    /\ rt_pc = "idle"
    /\ rt_saved = <<>>
    /\ inflight = [w \in Workers |-> IdleWorker]
    /\ docops = [w \in Workers |-> IdleWorker]

\* the turn-local variables are dropped when the handler returns
ResetTurn ==
    /\ pc' = "idle"
    /\ req' = None
    /\ vectordb' = None
    /\ chat_history' = <<>>
    /\ loaded_history' = <<>>
    /\ topic_analyzer_output' = <<>>
    /\ idx' = 0
    /\ executed_pairs' = {}
    /\ retrieved_context' = <<>>
    /\ web_context' = <<>>
    /\ calls' = <<>>
    /\ response_content' = <<>>

-----------------------------------------------------------------------------
(* POST /chat: chat_with_pdf and chat() *)

\* chat() ends in its except branch: apology answer, history extended, return
EndInExcept(e, newcalls) ==
    /\ response_content' = ExceptAnswer(e)
    /\ chat_history' = ExceptHistory(chat_history, req.query, req.image_data, e)
    /\ calls' = newcalls
    /\ pc' = "returned"
    /\ UNCHANGED <<req, vectordb, loaded_history, topic_analyzer_output, idx,
                   executed_pairs, retrieved_context, web_context>>

\* chat() from its first line to its first external call: the early return, the
\* tool setup and the choice of the mode
EnterChat(r, history, vdb) ==
    /\ req' = r
    /\ vectordb' = vdb
    /\ loaded_history' = history
    /\ IF Strip(r.query) = <<>> /\ ~ImageTruthy(r.image_data)
       THEN /\ pc' = "returned"
            /\ response_content' = PleaseProvide
            /\ chat_history' = history
       ELSE IF ReqTools(r, vdb) = {}
       THEN /\ pc' = "standard"
            /\ response_content' = <<>>
            /\ chat_history' = Append(history,
                   create_human_message_with_images(r.query, ImageArray(r.image_data)))
       ELSE /\ pc' = "analyze"
            /\ response_content' = <<>>
            /\ chat_history' = history
    /\ UNCHANGED <<topic_analyzer_output, idx, executed_pairs, retrieved_context,
                   web_context, calls>>

\* the /chat protocol around chat(): load the history of the session, open the
\* vector store, call chat() with the request's fields as the parameters chat()
\* declares (no image_data); ChatRespond and ChatFail are its end
ChatRequest(session_key, user_query, enable_web_search, enable_rag, search_types, init_ok, limit) ==
    LET r == [session_key |-> session_key, query |-> user_query,
              enable_web_search |-> enable_web_search, enable_rag |-> enable_rag,
              search_types |-> search_types, image_data |-> None]
        history == load_chat_history_json(chat_sessions[session_key])
        vdb == IF vectorstore_exists /\ init_ok THEN [kind |-> "Chroma"] ELSE None
    IN /\ pc = "idle"
       /\ Len(history) < limit
       /\ EnterChat(r, history, vdb)
       /\ UNCHANGED <<sessionVars, docVars, rtVars, workerVars, resp>>

\* Case 1 (no tools): the completion call on prompt | llm
StandardCompletion ==
    /\ pc = "standard"
    /\ LET user_message == create_human_message_with_images(req.query,
                               ImageArray(req.image_data))
           call(outcome) ==
               [call |-> "completion",
                messages |-> <<SystemMessage(<<"BASE_SYSTEM_PROMPT">>)>>
                                 \o chat_history \o <<user_message>>,
                outcome |-> outcome]
       IN \/ \E content \in Completions :
               /\ response_content' = Strip(content)
               /\ chat_history' = Append(chat_history, AIMessage(Strip(content)))
               /\ calls' = Append(calls, call("ok"))
               /\ pc' = "returned"
          \/ /\ calls' = Append(calls, call("raise"))
             /\ pc' = "raised"
             /\ UNCHANGED <<response_content, chat_history>>
    /\ UNCHANGED <<req, vectordb, loaded_history, topic_analyzer_output, idx,
                   executed_pairs, retrieved_context, web_context>>
    /\ UNCHANGED <<sessionVars, docVars, rtVars, workerVars, resp>>

\* Stage 1: the topic analyzer call and ast.literal_eval of its output; a parsed
\* value that is not iterable fails at chatbot.py:316 before the loop starts
TopicAnalyzerReturns(plans) ==
    /\ pc = "analyze"
    /\ LET call(outcome) == [call |-> "planner", input |-> req.query,
                             available_tools |-> ReqTools(req, vectordb),
                             outcome |-> outcome]
       IN \/ \E outcome \in {"raise", "unparseable", "scalar"}, e \in Errors :
               EndInExcept(e, Append(calls, call(outcome)))
          \/ \E plan \in plans :
               /\ topic_analyzer_output' = plan
               /\ idx' = 1
               /\ executed_pairs' = {}
               /\ retrieved_context' = <<>>
               /\ web_context' = <<>>
               /\ calls' = Append(calls, call("list"))
               /\ pc' = "execute"
               /\ UNCHANGED <<req, vectordb, loaded_history, chat_history,
                              response_content>>
    /\ UNCHANGED <<sessionVars, docVars, rtVars, workerVars, resp>>

InLoop == pc = "execute" /\ idx <= Len(topic_analyzer_output)
\* a variant of the iteration that walks the planner output from its last item
ItemFromEnd == topic_analyzer_output[Len(topic_analyzer_output) + 1 - idx]

Item == topic_analyzer_output[idx]
ItemQuery == Strip(Item.query)
ItemTool == Strip(Item.tool)

\* an item that cannot be unpacked into two strings raises inside the outer try
LoopMalformed ==
    /\ InLoop
    /\ Item.kind = "malformed"
    /\ \E e \in Errors : EndInExcept(e, calls)
    /\ UNCHANGED <<sessionVars, docVars, rtVars, workerVars, resp>>

NextItem ==
    /\ idx' = idx + 1
    /\ UNCHANGED <<pc, req, vectordb, loaded_history, chat_history,
                   topic_analyzer_output, response_content>>

SkipDuplicate ==
    /\ InLoop
    /\ Item.kind = "pair"
    /\ PairId(ItemTool, ItemQuery) \in executed_pairs
    /\ NextItem
    /\ UNCHANGED <<executed_pairs, retrieved_context, web_context, calls>>
    /\ UNCHANGED <<sessionVars, docVars, rtVars, workerVars, resp>>

SkipUnknownTool ==
    /\ InLoop
    /\ Item.kind = "pair"
    /\ PairId(ItemTool, ItemQuery) \notin executed_pairs
    /\ ItemTool \notin ReqTools(req, vectordb)
    /\ NextItem
    /\ UNCHANGED <<executed_pairs, retrieved_context, web_context, calls>>
    /\ UNCHANGED <<sessionVars, docVars, rtVars, workerVars, resp>>

InvokeTool ==
    /\ InLoop
    /\ Item.kind = "pair"
    /\ PairId(ItemTool, ItemQuery) \notin executed_pairs
    /\ ItemTool \in ReqTools(req, vectordb)
    /\ \E o \in ToolOutcomes :
         LET outcome == InvokeOutcome(ItemTool, ItemQuery, o)
             call == [call |-> "tool", tool |-> ItemTool, query |-> ItemQuery,
                      outcome |-> outcome]
         IN IF outcome.kind = "ok"
            THEN /\ executed_pairs' = MarkExecuted(executed_pairs,
                                          PairId(ItemTool, ItemQuery), outcome)
                 /\ calls' = Append(calls, call)
                 /\ IF ItemTool = <<"retrieve">>
                    THEN /\ retrieved_context' = retrieved_context
                                \o ResultText(outcome.result, "page_content")
                         /\ UNCHANGED web_context
                    ELSE /\ web_context' = web_context
                                \o ResultText(outcome.result, "content")
                         /\ UNCHANGED retrieved_context
                 /\ NextItem
            ELSE IF CaughtInLoop(outcome)
            THEN /\ executed_pairs' = MarkExecuted(executed_pairs,
                                          PairId(ItemTool, ItemQuery), outcome)
                 /\ calls' = Append(calls, call)
                 /\ UNCHANGED <<retrieved_context, web_context>>
                 /\ NextItem
            ELSE EndInExcept(outcome.error, Append(calls, call))
    /\ UNCHANGED <<sessionVars, docVars, rtVars, workerVars, resp>>

\* Stage 3: the single completion call of the tools branch and the history update
Synthesize ==
    /\ pc = "execute"
    /\ idx > Len(topic_analyzer_output)
    /\ LET image_data_array == ImageArray(req.image_data)
           context_text == ContextText(req.query,
                               FinalContext(retrieved_context, web_context))
           user_message == create_human_message_with_images(context_text,
                               image_data_array)
           call(outcome) ==
               [call |-> "completion",
                messages |-> <<SystemMessage(<<"BASE_SYSTEM_PROMPT",
                                               "strict_instructions">>)>>
                                 \o chat_history \o <<user_message>>,
                outcome |-> outcome]
       IN \/ \E content \in Completions :
               /\ response_content' = Strip(content)
               /\ chat_history' = chat_history \o
                      <<create_human_message_with_images(
                            HistoryQuery(req.query, context_text), image_data_array),
                        AIMessage(Strip(content))>>
               /\ calls' = Append(calls, call("ok"))
               /\ pc' = "returned"
               /\ UNCHANGED <<req, vectordb, loaded_history, topic_analyzer_output,
                              idx, executed_pairs, retrieved_context, web_context>>
          \/ \E e \in Errors : EndInExcept(e, Append(calls, call("raise")))
    /\ UNCHANGED <<sessionVars, docVars, rtVars, workerVars, resp>>

\* chat() returned: save_chat_history_json and the 200 response
ChatRespond ==
    /\ pc = "returned"
    /\ chat_sessions' = [chat_sessions EXCEPT
                            ![req.session_key] = save_chat_history_json(chat_history)]
    /\ mtimes' = Written(mtimes, req.session_key)
    /\ resp' = [op |-> "chat", status |-> 200, response |-> response_content]
    /\ ResetTurn
    /\ UNCHANGED <<today, created, docVars, rtVars, workerVars>>

\* an exception left chat(): chat_with_pdf has no handler, the request fails and
\* the history file is not written
ChatFail ==
    /\ pc = "raised"
    /\ chat_sessions' = StoredAfterRaise(chat_sessions, req.session_key, chat_history)
    /\ resp' = [op |-> "chat", status |-> 500]
    /\ ResetTurn
    /\ UNCHANGED <<mtimes, today, created, docVars, rtVars, workerVars>>

\* the parameters chat() declares (chatbot.py:175; no **kwargs) and the keywords
\* of the call in chat_with_pdf (main.py:88-96)
ChatParameters ==
    {"chat_history", "vectordb", "user_query", "use_rag", "use_web_search",
     "search_types", "model", "image_data"}

ChatKeywords ==
    {"chat_history", "vectordb", "user_query", "web_results", "use_rag",
     "use_web_search", "search_types"}

\* a call binds when each of its keywords names a parameter; otherwise Python
\* raises TypeError before the body of the function runs
CallBinds(keywords) == keywords \subseteq ChatParameters

\* POST /chat as main.py has it: the history is loaded, the vector store opened,
\* and chat() is called with ChatKeywords; nothing handles an exception of that
\* call, so the request fails and main.py:99 is not reached
ChatWithPdf(session_key, user_query) ==
    /\ pc = "idle"
    /\ IF CallBinds(ChatKeywords)
       THEN ChatRequest(session_key, user_query, FALSE, TRUE, <<<<"web">>>>, TRUE,
                        MaxStored)
       ELSE /\ resp' = [op |-> "chat", status |-> 500]
            /\ UNCHANGED <<sessionVars, turnVars, docVars, rtVars, workerVars>>

-----------------------------------------------------------------------------
(* Session endpoints of main.py *)

\* POST /create_chat
CreateChat ==
    LET session_key == get_new_chat_name(chat_sessions, today)
    IN /\ pc = "idle"
       /\ Len(created) < MaxCreates
       /\ session_key \in AllKeys
       /\ chat_sessions' = IF chat_sessions[session_key] = NoFile
                           THEN [chat_sessions EXCEPT ![session_key] = File(<<>>)]
                           ELSE chat_sessions
       /\ mtimes' = IF chat_sessions[session_key] = NoFile
                     THEN Written(mtimes, session_key) ELSE mtimes
       /\ created' = Append(created, [day |-> today, key |-> session_key])
       /\ resp' = [op |-> "create_chat", status |-> 200, session_key |-> session_key]
       /\ UNCHANGED <<today, turnVars, docVars, rtVars, workerVars>>

\* a variant of clear_chat that removes the file instead of truncating it
ClearChatRemoves(session_key) ==
    /\ pc = "idle"
    /\ chat_sessions' = [chat_sessions EXCEPT ![session_key] = NoFile]
    /\ mtimes' = Without(mtimes, session_key)
    /\ resp' = [op |-> "clear_chat", status |-> 200]
    /\ UNCHANGED <<today, created, turnVars, docVars, rtVars, workerVars>>

\* POST /clear_chat
ClearChat(session_key) ==
    /\ pc = "idle"
    /\ chat_sessions' = IF chat_sessions[session_key] # NoFile
                        THEN [chat_sessions EXCEPT ![session_key] = File(<<>>)]
                        ELSE chat_sessions
    /\ mtimes' = IF chat_sessions[session_key] # NoFile
                  THEN Written(mtimes, session_key) ELSE mtimes
    /\ resp' = [op |-> "clear_chat", status |-> 200]
    /\ UNCHANGED <<today, created, turnVars, docVars, rtVars, workerVars>>

\* POST /delete_chat
DeleteChat(session_key) ==
    /\ pc = "idle"
    /\ chat_sessions' = IF chat_sessions[session_key] # NoFile
                        THEN [chat_sessions EXCEPT ![session_key] = NoFile]
                        ELSE chat_sessions
    /\ mtimes' = Without(mtimes, session_key)
    /\ resp' = [op |-> "delete_chat", status |-> 200]
    /\ UNCHANGED <<today, created, turnVars, docVars, rtVars, workerVars>>

\* a session key that leaves the sessions directory: for session_key "../metadata"
\* the path chat_sessions/<session_key>.json is chat_sessions/../metadata.json,
\* the METADATA_FILE of prepare_vectordb.py:14 in the same working directory
MetadataKey == [path |-> <<"..", "metadata">>]

\* POST /delete_chat for whatever session_key string the client sends
DeleteChatPath(session_key) ==
    IF session_key = MetadataKey
    THEN /\ pc = "idle"
         /\ metadata' = <<>>
         /\ resp' = [op |-> "delete_chat", status |-> 200]
         /\ UNCHANGED <<sessionVars, turnVars, collection, docs_dir,
                        vectorstore_exists, rtVars, workerVars>>
    ELSE DeleteChat(session_key)

\* the file name <key>.json of a session key, and the file a request finds at
\* chat_sessions/<session_key>.json for whatever session_key it sends
FileName(k) == [date |-> k.date, tail |-> k.tail \o <<".json">>]

StoredFile(sessions, session_key) ==
    IF session_key \in DOMAIN sessions THEN sessions[session_key] ELSE NoFile

\* a variant of chat_history that answers an empty history for a missing file
GetChatHistoryLenient(session_key) ==
    /\ pc = "idle"
    /\ resp' = [op |-> "chat_history", status |-> 200,
                history |-> IF StoredFile(chat_sessions, session_key) # NoFile
                            THEN StoredFile(chat_sessions, session_key).data
                            ELSE <<>>]
    /\ UNCHANGED <<sessionVars, turnVars, docVars, rtVars, workerVars>>

\* GET /chat_history
GetChatHistory(session_key) ==
    /\ pc = "idle"
    /\ resp' = IF StoredFile(chat_sessions, session_key) # NoFile
               THEN [op |-> "chat_history", status |-> 200,
                     history |-> StoredFile(chat_sessions, session_key).data]
               ELSE [op |-> "chat_history", status |-> 404]
    /\ UNCHANGED <<sessionVars, turnVars, docVars, rtVars, workerVars>>

\* get_existing_chat_sessions: the .json file names of the directory, sorted by
\* modification time, newest first
get_existing_chat_sessions(order) == [i \in 1..Len(order) |-> FileName(order[i])]

\* GET /list_chats
ListChats ==
    /\ pc = "idle"
    /\ resp' = [op |-> "list_chats", status |-> 200,
                chat_sessions |-> get_existing_chat_sessions(mtimes)]
    /\ UNCHANGED <<sessionVars, turnVars, docVars, rtVars, workerVars>>

\* midnight: datetime.now() moves to the next calendar day
NextDay ==
    /\ pc = "idle"
    /\ today < MaxDay
    /\ today' = today + 1
    /\ UNCHANGED <<chat_sessions, mtimes, created, turnVars, docVars, rtVars, workerVars, resp>>

-----------------------------------------------------------------------------
(* Documents: utils/prepare_vectordb.py, utils/save_docs.py and their endpoints *)

Filenames == {"a.pdf", "b.txt"}
MaxChunks == 2         \* chunks the splitter may cut one file into

\* the file lists of an upload request: one file, two files in either order, and
\* the same name twice
Uploads ==
    {<<"a.pdf">>, <<"b.txt">>, <<"a.pdf", "b.txt">>, <<"b.txt", "a.pdf">>,
     <<"a.pdf", "a.pdf">>}

\* os.path.join(DOCS_PATH, filename) and os.path.basename(source)
DocPath(filename) == <<"../docs", filename>>
Basename(source) == source[Len(source)]

\* the metadata dict as its items in insertion order
MetaKeys(meta) == {meta[i].filename : i \in 1..Len(meta)}

\* a variant of the delete that leaves the metadata file as it was
MetaDelNothing(meta, filename) == meta

\* del metadata[filename]
RECURSIVE MetaDel(_, _)
MetaDel(meta, filename) ==
    IF meta = <<>> THEN <<>>
    ELSE IF Head(meta).filename = filename THEN MetaDel(Tail(meta), filename)
    ELSE <<Head(meta)>> \o MetaDel(Tail(meta), filename)

\* metadata[filename] = f"doc_{i}"
MetaSet(meta, filename, i) ==
    IF filename \in MetaKeys(meta)
    THEN [k \in 1..Len(meta) |->
             IF meta[k].filename = filename THEN [filename |-> filename, id |-> i]
             ELSE meta[k]]
    ELSE Append(meta, [filename |-> filename, id |-> i])

\* the loop at prepare_vectordb.py:130-134 over the first n metadatas
RECURSIVE MetaFromChunks(_, _, _)
MetaFromChunks(meta, metadatas, n) ==
    IF n = 0 THEN meta
    ELSE MetaSet(MetaFromChunks(meta, metadatas, n - 1),
                 Basename(metadatas[n].source), n - 1)

\* list_documents_from_vectorstore
list_documents_from_vectorstore(meta) == [i \in 1..Len(meta) |-> meta[i].filename]

\* an id the store assigns to a new chunk: one no chunk of the collection has
FreshId(coll) ==
    CHOOSE n \in 1..(Len(coll) + 1) :
        /\ n \notin {coll[i].id : i \in 1..Len(coll)}
        /\ \A m \in 1..(n - 1) : m \in {coll[i].id : i \in 1..Len(coll)}

\* the chunks Chroma.from_documents adds for the files, in order
RECURSIVE AddChunks(_, _, _)
AddChunks(coll, names, nchunks) ==
    IF names = <<>> THEN coll
    ELSE LET f == Head(names)
             RECURSIVE AddN(_, _)
             AddN(c, n) == IF n = 0 THEN c
                           ELSE AddN(Append(c, [id |-> FreshId(c), source |-> DocPath(f)]),
                                     n - 1)
         IN AddChunks(AddN(coll, nchunks[f]), Tail(names), nchunks)

\* a variant that matches the first chunk of the file only
IdsToDeleteFirstMatch(coll, filename) ==
    LET matches == {j \in 1..Len(coll) : Basename(coll[j].source) = filename}
    IN IF matches = {} THEN {}
       ELSE {coll[CHOOSE j \in matches : \A k \in matches : j <= k].id}

\* ids_to_delete at prepare_vectordb.py:163 and the collection after deleting them
IdsToDelete(coll, filename) ==
    {coll[i].id : i \in {j \in 1..Len(coll) : Basename(coll[j].source) = filename}}

RECURSIVE DeleteIds(_, _)
DeleteIds(coll, ids) ==
    IF coll = <<>> THEN <<>>
    ELSE IF Head(coll).id \in ids THEN DeleteIds(Tail(coll), ids)
    ELSE <<Head(coll)>> \o DeleteIds(Tail(coll), ids)

RECURSIVE SelectNew(_, _)
SelectNew(pdfs, upload_docs) ==
    IF pdfs = <<>> THEN <<>>
    ELSE (IF Head(pdfs) \notin upload_docs THEN <<Head(pdfs)>> ELSE <<>>)
             \o SelectNew(Tail(pdfs), upload_docs)

SeqRange(q) == {q[i] : i \in 1..Len(q)}

\* POST /upload: save_docs_to_vectordb and get_vectorstore.  failure names the step
\* that raises: "load" (a loader), "index" (embedding or the store), or "none"
UploadDocs(pdfs, nchunks, failure) ==
    LET new_files_names == SelectNew(pdfs, docs_dir)
        coll == AddChunks(collection, new_files_names, nchunks)
    IN /\ pc = "idle"
       /\ IF new_files_names = <<>>
          THEN /\ resp' = [op |-> "upload", status |-> 200]
               /\ UNCHANGED docVars
          ELSE /\ docs_dir' = docs_dir \cup SeqRange(new_files_names)
               /\ IF failure = "none"
                  THEN /\ collection' = coll
                       /\ vectorstore_exists' = TRUE
                       /\ metadata' = MetaFromChunks(metadata, coll, Len(coll))
                       /\ resp' = [op |-> "upload", status |-> 200]
                  ELSE /\ resp' = [op |-> "upload", status |-> 500]
                       /\ UNCHANGED <<metadata, collection, vectorstore_exists>>
       /\ UNCHANGED <<sessionVars, turnVars, rtVars, workerVars>>

\* DELETE /delete_document: delete_document_from_vectorstore.  store_ok is whether
\* opening the embeddings and the Chroma store succeeds
DeleteDocument(filename, store_ok) ==
    /\ pc = "idle"
    /\ IF filename \notin MetaKeys(metadata)
       THEN /\ resp' = [op |-> "delete_document", filename |-> filename,
                        status |-> 200, result |-> "error"]
            /\ UNCHANGED docVars
       ELSE IF ~store_ok
       THEN /\ resp' = [op |-> "delete_document", filename |-> filename,
                        status |-> 500, result |-> "raised"]
            /\ UNCHANGED docVars
       ELSE /\ collection' = DeleteIds(collection, IdsToDelete(collection, filename))
            /\ vectorstore_exists' = TRUE
            /\ docs_dir' = docs_dir \ {filename}
            /\ metadata' = MetaDel(metadata, filename)
            /\ resp' = [op |-> "delete_document", filename |-> filename,
                        status |-> 200, result |-> "success"]
    /\ UNCHANGED <<sessionVars, turnVars, rtVars, workerVars>>

\* GET /list_vectorstore_docs
ListDocs ==
    /\ pc = "idle"
    /\ resp' = [op |-> "list_vectorstore_docs", status |-> 200,
                documents |-> IF vectorstore_exists
                              THEN list_documents_from_vectorstore(metadata)
                              ELSE <<>>]
    /\ UNCHANGED <<sessionVars, turnVars, docVars, rtVars, workerVars>>

-----------------------------------------------------------------------------
(* A caller of utils/save_chat.py: builds a message list, saves it, loads it back *)

Texts == {<<"q">>, <<>>}
ImageUrlsIn == {<<"i">>, <<"j", "k">>}
MaxMessages == 2       \* messages in the list of the round-trip caller
RoundTripKey == SessionKey(1, <<"x">>)

ImageArgs == {None} \cup {ImageList(us) : us \in SeqsUpTo(ImageUrlsIn, 2) \ {<<>>}}

RTAppendHuman ==
    /\ rt_pc \in {"idle", "loaded"}
    /\ Len(chat_history) < MaxMessages
    /\ \E text \in Texts, image_data_array \in ImageArgs :
         chat_history' = Append(chat_history,
                             create_human_message_with_images(text, image_data_array))
    /\ rt_pc' = "idle"
    /\ UNCHANGED <<sessionVars, docVars, rt_saved, workerVars, resp, pc, req, vectordb,
                   loaded_history, topic_analyzer_output, idx, executed_pairs,
                   retrieved_context, web_context, calls, response_content>>

RTAppendAI ==
    /\ rt_pc \in {"idle", "loaded"}
    /\ Len(chat_history) < MaxMessages
    /\ \E text \in Texts : chat_history' = Append(chat_history, AIMessage(text))
    /\ rt_pc' = "idle"
    /\ UNCHANGED <<sessionVars, docVars, rt_saved, workerVars, resp, pc, req, vectordb,
                   loaded_history, topic_analyzer_output, idx, executed_pairs,
                   retrieved_context, web_context, calls, response_content>>

RTSave ==
    /\ rt_pc = "idle"
    /\ chat_sessions' = [chat_sessions EXCEPT
                            ![RoundTripKey] = save_chat_history_json(chat_history)]
    /\ mtimes' = Written(mtimes, RoundTripKey)
    /\ rt_saved' = chat_history
    /\ rt_pc' = "saved"
    /\ UNCHANGED <<today, created, turnVars, docVars, workerVars, resp>>

RTLoad ==
    /\ rt_pc = "saved"
    /\ chat_history' = load_chat_history_json(chat_sessions[RoundTripKey])
    /\ rt_pc' = "loaded"
    /\ UNCHANGED <<sessionVars, docVars, rt_saved, workerVars, resp, pc, req, vectordb,
                   loaded_history, topic_analyzer_output, idx, executed_pairs,
                   retrieved_context, web_context, calls, response_content>>

-----------------------------------------------------------------------------
(* POST /chat served by several processes.  uvicorn.run(app) of main.py is one *)
(* process whose handlers never await, so there the requests run one after   *)
(* another; the same application started with several worker processes runs *)
(* chat_with_pdf in each of them against the same chat_sessions/ directory,  *)
(* with no lock between the load at main.py:76 and the save at main.py:99.   *)

\* chat() without tools on an in-memory history: the early return for an empty
\* message, else the user message, the completion and the answer appended
StandardChat(history, user_query, content) ==
    IF Strip(user_query) = <<>>
    THEN [response |-> PleaseProvide, chat_history |-> history]
    ELSE [response |-> Strip(content),
          chat_history |-> history \o <<create_human_message_with_images(user_query, None),
                                        AIMessage(Strip(content))>>]

\* chat_with_pdf up to the call of chat(): the history is read from the file
WorkerLoad(w, session_key, user_query) ==
    LET history == load_chat_history_json(chat_sessions[session_key])
    IN /\ inflight[w].pc \in {"idle", "responded"}
       /\ Len(history) < MaxStoredRace
       /\ inflight' = [inflight EXCEPT ![w] =
              [pc |-> "loaded", session_key |-> session_key, query |-> user_query,
               loaded_history |-> history, chat_history |-> history,
               response |-> <<>>, status |-> 0]]
       /\ UNCHANGED <<sessionVars, turnVars, docVars, rtVars, docops, resp>>

\* chat() with enable_rag and enable_web_search off: it returns, or the completion
\* raises
WorkerChat(w) ==
    /\ inflight[w].pc = "loaded"
    /\ \/ \E content \in Completions :
            LET r == StandardChat(inflight[w].chat_history, inflight[w].query, content)
            IN inflight' = [inflight EXCEPT ![w].pc = "returned",
                                            ![w].chat_history = r.chat_history,
                                            ![w].response = r.response]
       \/ /\ Strip(inflight[w].query) # <<>>
          /\ inflight' = [inflight EXCEPT ![w].pc = "raised"]
    /\ UNCHANGED <<sessionVars, turnVars, docVars, rtVars, docops, resp>>

\* a variant of the save that re-reads the file and appends the new exchange to it
WorkerSaveMerging(w) ==
    LET mine == inflight[w]
        stored == load_chat_history_json(chat_sessions[mine.session_key])
        added == SubSeq(mine.chat_history, Len(mine.loaded_history) + 1,
                        Len(mine.chat_history))
    IN /\ mine.pc = "returned"
       /\ chat_sessions' = [chat_sessions EXCEPT
              ![mine.session_key] = save_chat_history_json(stored \o added)]
       /\ mtimes' = Written(mtimes, mine.session_key)
       /\ resp' = [op |-> "chat", status |-> 200, response |-> mine.response]
       /\ inflight' = [inflight EXCEPT ![w].pc = "responded", ![w].status = 200]
       /\ UNCHANGED <<today, created, turnVars, docVars, rtVars, docops>>

\* chat() returned: the in-memory list overwrites the file, then the 200 response
WorkerSave(w) ==
    LET mine == inflight[w]
    IN /\ mine.pc = "returned"
       /\ chat_sessions' = [chat_sessions EXCEPT
              ![mine.session_key] = save_chat_history_json(mine.chat_history)]
       /\ mtimes' = Written(mtimes, mine.session_key)
       /\ resp' = [op |-> "chat", status |-> 200, response |-> mine.response]
       /\ inflight' = [inflight EXCEPT ![w].pc = "responded", ![w].status = 200]
       /\ UNCHANGED <<today, created, turnVars, docVars, rtVars, docops>>

\* the completion raised: no handler in chat_with_pdf, nothing is saved
WorkerFail(w) ==
    /\ inflight[w].pc = "raised"
    /\ resp' = [op |-> "chat", status |-> 500]
    /\ inflight' = [inflight EXCEPT ![w].pc = "responded", ![w].status = 500]
    /\ UNCHANGED <<sessionVars, turnVars, docVars, rtVars, docops>>

-----------------------------------------------------------------------------
(* The document endpoints step by step.  Between the reads and writes of      *)
(* metadata.json, the collection and ../docs another server process may run,  *)
(* and the process serving the request may die.                               *)

\* each process serves one document request, step by step
DocFree(w) == docops[w].pc = "idle"
DocBusy(w) == docops[w].pc \notin {"idle", "responded", "crashed"}

\* the number of times the processes have written metadata.json
MetadataWrites ==
    Cardinality({w \in Workers : docops[w].pc # "idle" /\ docops[w].saved_at > 0})

\* delete_document_from_vectorstore: load_metadata and the membership test
DeleteLoad(w, filename) ==
    /\ DocFree(w)
    /\ IF filename \notin MetaKeys(metadata)
       THEN /\ docops' = [docops EXCEPT ![w] =
                   [op |-> "delete_document", pc |-> "responded", filename |-> filename,
                    loaded |-> metadata, result |-> "error",
                    loaded_at |-> MetadataWrites, saved_at |-> 0]]
            /\ resp' = [op |-> "delete_document", filename |-> filename,
                        status |-> 200, result |-> "error"]
       ELSE /\ docops' = [docops EXCEPT ![w] =
                   [op |-> "delete_document", pc |-> "loaded", filename |-> filename,
                    loaded |-> metadata, result |-> "none",
                    loaded_at |-> MetadataWrites, saved_at |-> 0]]
            /\ UNCHANGED resp
    /\ UNCHANGED <<sessionVars, turnVars, docVars, rtVars, inflight>>

\* a variant of the delete that has not touched the collection when it reaches the
\* removal of the file and the metadata write
DeleteChunksLater(w) ==
    /\ docops[w].op = "delete_document" /\ docops[w].pc = "loaded"
    /\ vectorstore_exists' = TRUE
    /\ docops' = [docops EXCEPT ![w].pc = "indexed"]
    /\ UNCHANGED <<metadata, collection, docs_dir, resp>>
    /\ UNCHANGED <<sessionVars, turnVars, rtVars, inflight>>

\* the store is opened and the chunks of the file are deleted from the collection;
\* opening the embeddings or the store may raise
DeleteChunks(w) ==
    /\ docops[w].op = "delete_document" /\ docops[w].pc = "loaded"
    /\ \/ /\ collection' = DeleteIds(collection,
                                     IdsToDelete(collection, docops[w].filename))
          /\ vectorstore_exists' = TRUE
          /\ docops' = [docops EXCEPT ![w].pc = "indexed"]
          /\ UNCHANGED <<metadata, docs_dir, resp>>
       \/ /\ docops' = [docops EXCEPT ![w].pc = "responded", ![w].result = "raised"]
          /\ resp' = [op |-> "delete_document", filename |-> docops[w].filename,
                      status |-> 500, result |-> "raised"]
          /\ UNCHANGED docVars
    /\ UNCHANGED <<sessionVars, turnVars, rtVars, inflight>>

\* os.remove of the uploaded file
DeleteFile(w) ==
    /\ docops[w].op = "delete_document" /\ docops[w].pc = "indexed"
    /\ docs_dir' = docs_dir \ {docops[w].filename}
    /\ docops' = [docops EXCEPT ![w].pc = "removed"]
    /\ UNCHANGED <<metadata, collection, vectorstore_exists, resp>>
    /\ UNCHANGED <<sessionVars, turnVars, rtVars, inflight>>

\* a variant of the delete that reads the map again before it removes the entry
DeleteSaveReloading(w) ==
    /\ docops[w].op = "delete_document" /\ docops[w].pc = "removed"
    /\ metadata' = MetaDel(metadata, docops[w].filename)
    /\ docops' = [docops EXCEPT ![w].pc = "responded", ![w].result = "success",
                                ![w].saved_at = MetadataWrites + 1]
    /\ resp' = [op |-> "delete_document", filename |-> docops[w].filename,
                status |-> 200, result |-> "success"]
    /\ UNCHANGED <<collection, docs_dir, vectorstore_exists>>
    /\ UNCHANGED <<sessionVars, turnVars, rtVars, inflight>>

\* del metadata[filename] on the dict loaded at the start, save_metadata, response
DeleteSave(w) ==
    /\ docops[w].op = "delete_document" /\ docops[w].pc = "removed"
    /\ metadata' = MetaDel(docops[w].loaded, docops[w].filename)
    /\ docops' = [docops EXCEPT ![w].pc = "responded", ![w].result = "success",
                                ![w].saved_at = MetadataWrites + 1]
    /\ resp' = [op |-> "delete_document", filename |-> docops[w].filename,
                status |-> 200, result |-> "success"]
    /\ UNCHANGED <<collection, docs_dir, vectorstore_exists>>
    /\ UNCHANGED <<sessionVars, turnVars, rtVars, inflight>>

\* upload_docs and save_docs_to_vectordb: the listing of ../docs, the new files
\* written there
UploadWrite(w, pdfs, nchunks) ==
    LET new_files_names == SelectNew(pdfs, docs_dir)
        mine == [op |-> "upload", new_files_names |-> new_files_names,
                 nchunks |-> nchunks, metadatas |-> <<>>, loaded |-> <<>>,
                 meta |-> <<>>, status |-> 0, loaded_at |-> 0, saved_at |-> 0]
    IN /\ DocFree(w)
          /\ IF new_files_names = <<>>
          THEN /\ docops' = [docops EXCEPT ![w] =
                      [mine EXCEPT !.status = 200] @@ [pc |-> "responded"]]
               /\ resp' = [op |-> "upload", status |-> 200]
               /\ UNCHANGED docVars
          ELSE /\ docops' = [docops EXCEPT ![w] = mine @@ [pc |-> "written"]]
               /\ docs_dir' = docs_dir \cup SeqRange(new_files_names)
               /\ UNCHANGED <<metadata, collection, vectorstore_exists, resp>>
       /\ UNCHANGED <<sessionVars, turnVars, rtVars, inflight>>

\* get_vectorstore: the files are loaded and split and Chroma.from_documents adds
\* the chunks, or one of these raises
UploadIndex(w) ==
    /\ docops[w].op = "upload" /\ docops[w].pc = "written"
    /\ \/ /\ collection' = AddChunks(collection, docops[w].new_files_names,
                                     docops[w].nchunks)
          /\ vectorstore_exists' = TRUE
          /\ docops' = [docops EXCEPT ![w].pc = "indexed"]
          /\ UNCHANGED <<metadata, docs_dir, resp>>
       \/ /\ docops' = [docops EXCEPT ![w].pc = "responded", ![w].status = 500]
          /\ resp' = [op |-> "upload", status |-> 500]
          /\ UNCHANGED docVars
    /\ UNCHANGED <<sessionVars, turnVars, rtVars, inflight>>

\* collection.get(include=["metadatas"])
UploadGet(w) ==
    /\ docops[w].op = "upload" /\ docops[w].pc = "indexed"
    /\ docops' = [docops EXCEPT ![w].pc = "got", ![w].metadatas = collection]
    /\ UNCHANGED <<sessionVars, turnVars, docVars, rtVars, inflight, resp>>

\* load_metadata and the loop that sets an entry per chunk source
UploadMerge(w) ==
    /\ docops[w].op = "upload" /\ docops[w].pc = "got"
    /\ docops' = [docops EXCEPT
           ![w].pc = "merged",
           ![w].loaded = metadata,
           ![w].loaded_at = MetadataWrites,
           ![w].meta = MetaFromChunks(metadata, docops[w].metadatas,
                                      Len(docops[w].metadatas))]
    /\ UNCHANGED <<sessionVars, turnVars, docVars, rtVars, inflight, resp>>

\* save_metadata and the response
UploadSave(w) ==
    /\ docops[w].op = "upload" /\ docops[w].pc = "merged"
    /\ metadata' = docops[w].meta
    /\ docops' = [docops EXCEPT ![w].pc = "responded", ![w].status = 200,
                                ![w].saved_at = MetadataWrites + 1]
    /\ resp' = [op |-> "upload", status |-> 200]
    /\ UNCHANGED <<collection, docs_dir, vectorstore_exists>>
    /\ UNCHANGED <<sessionVars, turnVars, rtVars, inflight>>

\* the process dies in the middle of a document request: no response, and the
\* steps it had not reached never run
Crash(w) ==
    /\ DocBusy(w)
    /\ docops' = [docops EXCEPT ![w] =
           [op |-> docops[w].op, pc |-> "crashed", at |-> docops[w].pc,
            saved_at |-> 0,
            filename |-> IF docops[w].op = "delete_document"
                         THEN docops[w].filename ELSE ""]]
    /\ UNCHANGED <<sessionVars, turnVars, docVars, rtVars, inflight, resp>>

-----------------------------------------------------------------------------
(* A caller of chat() that passes image_data and keeps the history list in memory *)

\* image_data arguments: none, one image as a str, images as a list
ImageInputs ==
    {None, ImageStr(<<"j", "k">>), ImageList(<<<<"i">>>>),
     ImageList(<<<<"i">>, <<"j", "k">>>>)}

ImagePlans == {<<>>, <<PairItem(<<"a">>, <<"web">>)>>}

\* chat(chat_history, None, user_query, use_web_search=..., image_data=...)
ChatCall(user_query, use_web_search, image_data) ==
    /\ pc = "idle"
    /\ Len(chat_history) < MaxStored
    /\ EnterChat([query |-> user_query, enable_web_search |-> use_web_search,
                  enable_rag |-> TRUE, search_types |-> <<>>,
                  image_data |-> image_data],
                 chat_history, None)
    /\ UNCHANGED <<sessionVars, docVars, rtVars, workerVars, resp>>

\* chat() returned to the caller: the list it was given holds the new turns
CallReturns ==
    /\ pc = "returned"
    /\ resp' = [op |-> "chat()", status |-> "returned", response |-> response_content]
    /\ pc' = "idle"
    /\ req' = None
    /\ vectordb' = None
    /\ loaded_history' = <<>>
    /\ topic_analyzer_output' = <<>>
    /\ idx' = 0
    /\ executed_pairs' = {}
    /\ retrieved_context' = <<>>
    /\ web_context' = <<>>
    /\ calls' = <<>>
    /\ response_content' = <<>>
    /\ UNCHANGED <<chat_history, sessionVars, docVars, rtVars, workerVars>>

\* chat() raised to the caller (Case 1 has no handler): the list keeps what was
\* appended before the call that raised
CallRaises ==
    /\ pc = "raised"
    /\ resp' = [op |-> "chat()", status |-> "raised"]
    /\ pc' = "idle"
    /\ req' = None
    /\ vectordb' = None
    /\ loaded_history' = <<>>
    /\ topic_analyzer_output' = <<>>
    /\ idx' = 0
    /\ executed_pairs' = {}
    /\ retrieved_context' = <<>>
    /\ web_context' = <<>>
    /\ calls' = <<>>
    /\ response_content' = <<>>
    /\ UNCHANGED <<chat_history, sessionVars, docVars, rtVars, workerVars>>

-----------------------------------------------------------------------------
(* Specifications *)

TopicAnalyzer == TopicAnalyzerReturns(SeqsUpTo(PlanItems, MaxPlan))

\* planner outputs of the HTTP specification: one of each path through the loop
HttpPlans ==
    {<<>>, <<MalformedItem>>, <<PairItem(<<"a">>, <<"retrieve">>)>>,
     <<PairItem(<<"a">>, <<" ", "web">>), PairItem(<<"a", " ">>, <<" ", "web">>)>>}

TopicAnalyzerHttp == TopicAnalyzerReturns(HttpPlans)

\* the /chat requests of the HTTP specification: every mode of chat(), few flags
HttpKeys == {SessionKey(1, <<"x">>)}
HttpQueries == {<<"q">>, <<" ">>}

ChatAny ==
    \E k \in HttpKeys, q \in HttpQueries, w \in BOOLEAN :
        ChatRequest(k, q, w, FALSE, <<>>, TRUE, MaxStoredHttp)

TurnKey == SessionKey(1, <<"1">>)

ChatTurn ==
    \E q \in Queries, w \in BOOLEAN, r \in BOOLEAN,
       t \in SearchTypeLists, ok \in BOOLEAN :
        ChatRequest(TurnKey, q, w, r, t, ok, MaxStored)

\* the HTTP surface for conversations
Next ==
    \/ CreateChat
    \/ \E k \in AllKeys : ClearChat(k)
    \/ \E k \in AllKeys : DeleteChat(k)
    \/ NextDay
    \/ ChatAny
    \/ StandardCompletion
    \/ TopicAnalyzerHttp
    \/ LoopMalformed
    \/ SkipDuplicate
    \/ SkipUnknownTool
    \/ InvokeTool
    \/ Synthesize
    \/ ChatRespond
    \/ ChatFail

Spec == Init /\ [][Next]_vars

\* one session, whole planner outputs: the inside of a turn
NextTurn ==
    \/ ChatTurn
    \/ StandardCompletion
    \/ TopicAnalyzer
    \/ LoopMalformed
    \/ SkipDuplicate
    \/ SkipUnknownTool
    \/ InvokeTool
    \/ Synthesize
    \/ ChatRespond
    \/ ChatFail
    \/ ClearChat(TurnKey)
    \/ DeleteChat(TurnKey)

SpecTurn == Init /\ [][NextTurn]_vars

\* the session endpoints around conversations of the no-tools mode; a client
\* also asks for the history of the names list_chats returned
SessKeys == {SessionKey(1, <<"1">>), SessionKey(1, <<"x">>)}

ChatSess ==
    \E k \in SessKeys :
        ChatRequest(k, <<"q">>, FALSE, FALSE, <<>>, TRUE, MaxStored)

ListedNames ==
    IF resp # None /\ resp.op = "list_chats"
    THEN {resp.chat_sessions[i] : i \in 1..Len(resp.chat_sessions)}
    ELSE {}

NextSess ==
    \/ CreateChat
    \/ \E k \in SessKeys : ClearChat(k)
    \/ \E k \in SessKeys : DeleteChat(k)
    \/ \E k \in SessKeys : GetChatHistory(k)
    \/ \E name \in ListedNames : GetChatHistory(name)
    \/ ListChats
    \/ ChatSess
    \/ StandardCompletion
    \/ ChatRespond
    \/ ChatFail

SpecSess == Init /\ [][NextSess]_vars

\* /chat requests without tools served by two processes
RaceKeys == {SessionKey(1, <<"1">>)}
RaceQueries == {<<"q">>, <<"r">>, <<" ">>}

NextRace ==
    \/ \E w \in Workers, k \in RaceKeys, q \in RaceQueries : WorkerLoad(w, k, q)
    \/ \E w \in Workers : WorkerChat(w)
    \/ \E w \in Workers : WorkerSave(w)
    \/ \E w \in Workers : WorkerFail(w)

SpecRace == Init /\ [][NextRace]_vars

\* two processes serve one document request each, after any number of document
\* requests served one at a time
RaceUploads == {<<"a.pdf">>, <<"b.txt">>, <<"a.pdf", "b.txt">>}
RaceChunks == {[f \in Filenames |-> 1], [f \in Filenames |-> IF f = "a.pdf" THEN 2 ELSE 0]}

NextDocRace ==
    \/ /\ \A w \in Workers : DocFree(w)
       /\ \/ \E pdfs \in RaceUploads, nchunks \in RaceChunks :
                UploadDocs(pdfs, nchunks, "none")
          \/ \E filename \in Filenames : DeleteDocument(filename, TRUE)
    \/ \E w \in Workers, pdfs \in RaceUploads, nchunks \in RaceChunks :
           UploadWrite(w, pdfs, nchunks)
    \/ \E w \in Workers : UploadIndex(w)
    \/ \E w \in Workers : UploadGet(w)
    \/ \E w \in Workers : UploadMerge(w)
    \/ \E w \in Workers : UploadSave(w)
    \/ \E w \in Workers, filename \in Filenames : DeleteLoad(w, filename)
    \/ \E w \in Workers : DeleteChunks(w)
    \/ \E w \in Workers : DeleteFile(w)
    \/ \E w \in Workers : DeleteSave(w)
    \/ ListDocs

SpecDocRace == Init /\ [][NextDocRace]_vars

\* a delete that may die half way, after document requests served one at a time;
\* once the process has died, list requests and /chat requests with retrieval
CrashKey == SessionKey(1, <<"1">>)
CrashPlans == {<<PairItem(<<"a">>, <<"retrieve">>)>>}
Crashed == \E w \in Workers : docops[w].pc = "crashed"

NextCrash ==
    \/ /\ DocFree(1)
       /\ \/ \E pdfs \in RaceUploads, nchunks \in RaceChunks :
                UploadDocs(pdfs, nchunks, "none")
          \/ \E filename \in Filenames : DeleteDocument(filename, TRUE)
    \/ \E filename \in Filenames : DeleteLoad(1, filename)
    \/ DeleteChunks(1)
    \/ DeleteFile(1)
    \/ DeleteSave(1)
    \/ Crash(1)
    \/ Crashed /\ ListDocs
    \/ Crashed /\ ChatRequest(CrashKey, <<"q">>, FALSE, TRUE, <<>>, TRUE, 1)
    \/ TopicAnalyzerReturns(CrashPlans)
    \/ InvokeTool
    \/ Synthesize
    \/ ChatRespond

SpecCrash == Init /\ [][NextCrash]_vars

\* every endpoint of main.py, one request at a time, for session names and for
\* a session key that is a path
FrameKeys == {SessionKey(1, <<"1">>), MetadataKey}
FrameUploads == {<<"a.pdf">>, <<"b.txt">>}

NextFrame ==
    \/ \E pdfs \in FrameUploads, nchunks \in [Filenames -> 1..MaxChunks],
          failure \in {"none", "load"} : UploadDocs(pdfs, nchunks, failure)
    \/ \E f \in Filenames : DeleteDocument(f, TRUE)
    \/ ListDocs
    \/ CreateChat
    \/ \E k \in FrameKeys, q \in HttpQueries : ChatWithPdf(k, q)
    \/ \E k \in AllKeys : ClearChat(k)
    \/ \E k \in AllKeys \cup FrameKeys : DeleteChatPath(k)
    \/ \E k \in AllKeys : GetChatHistory(k)
    \/ ListChats

SpecFrame == Init /\ [][NextFrame]_vars

\* chat() called with image data, with and without the web tool
NextImage ==
    \/ \E q \in HttpQueries, w \in BOOLEAN, image_data \in ImageInputs :
          ChatCall(q, w, image_data)
    \/ StandardCompletion
    \/ TopicAnalyzerReturns(ImagePlans)
    \/ InvokeTool
    \/ Synthesize
    \/ CallReturns
    \/ CallRaises

SpecImage == Init /\ [][NextImage]_vars

\* the document endpoints
NextDocs ==
    \/ \E pdfs \in Uploads,
          nchunks \in [Filenames -> 0..MaxChunks],
          failure \in {"none", "load", "index"} : UploadDocs(pdfs, nchunks, failure)
    \/ \E f \in Filenames, store_ok \in BOOLEAN : DeleteDocument(f, store_ok)
    \/ ListDocs

SpecDocs == Init /\ [][NextDocs]_vars

\* the conversation store alone
NextRT == RTAppendHuman \/ RTAppendAI \/ RTSave \/ RTLoad

SpecRT == Init /\ [][NextRT]_vars

-----------------------------------------------------------------------------
(* Properties *)

\* a turn as the conversation sees it: role, text, image payloads in order
RECURSIVE ItemTexts(_)
ItemTexts(items) ==
    IF items = <<>> THEN <<>>
    ELSE (IF Head(items).type = "text" THEN Head(items).text ELSE <<>>)
             \o ItemTexts(Tail(items))

RECURSIVE ItemImages(_)
ItemImages(items) ==
    IF items = <<>> THEN <<>>
    ELSE (IF Head(items).type = "image_url" THEN <<Head(items).url>> ELSE <<>>)
             \o ItemImages(Tail(items))

TurnOf(message) ==
    [role |-> message.type,
     text |-> IF message.content.kind = "str" THEN message.content.text
              ELSE ItemTexts(message.content.items),
     images |-> IF message.content.kind = "str" THEN <<>>
                ELSE ItemImages(message.content.items)]

TurnsOf(history) == [i \in 1..Len(history) |-> TurnOf(history[i])]

\* C1: a turn sequence of human turns (text plus zero, one or several images) and
\* assistant turns (text), saved with save_chat_history_json and loaded back with
\* load_chat_history_json, is the same sequence: same length, order, roles, texts
\* and per-turn image payload lists.
RoundTripLaw ==
    rt_pc = "loaded" =>
        /\ Len(chat_history) = Len(rt_saved)
        /\ TurnsOf(chat_history) = TurnsOf(rt_saved)

\* a loaded list that holds a turn with one image and a turn with several
RoundTripWitness ==
    /\ rt_pc = "loaded"
    /\ \E i \in 1..Len(rt_saved) : Len(TurnOf(rt_saved[i]).images) = 1
    /\ \E i \in 1..Len(rt_saved) : Len(TurnOf(rt_saved[i]).images) > 1

\* the tool calls of the turn so far, as (tool, sub-query) pairs in call order
ToolCallIndexes == {i \in 1..Len(calls) : calls[i].call = "tool"}

\* C2: within one turn, whatever the planner output, no (tool, sub-query) pair is
\* invoked more than once; a planned pair equal to one already invoked in this
\* turn, even one whose invocation raised, is skipped.
NoPairInvokedTwice ==
    \A i, j \in ToolCallIndexes :
        i < j => ~(calls[i].tool = calls[j].tool /\ calls[i].query = calls[j].query)

\* the loop is over, the plan repeats a pair of an enabled tool, the pair was invoked
\* once and that invocation raised
DuplicateOfRaisedSkipped ==
    /\ pc = "execute"
    /\ idx > Len(topic_analyzer_output)
    /\ \E m, n \in 1..Len(topic_analyzer_output) :
         /\ m < n
         /\ topic_analyzer_output[m].kind = "pair"
         /\ topic_analyzer_output[n].kind = "pair"
         /\ topic_analyzer_output[m].query # topic_analyzer_output[n].query
         /\ Strip(topic_analyzer_output[m].query) = Strip(topic_analyzer_output[n].query)
         /\ Strip(topic_analyzer_output[m].tool) = Strip(topic_analyzer_output[n].tool)
         /\ Cardinality(ToolCallIndexes) = 1
         /\ \A i \in ToolCallIndexes :
              /\ calls[i].tool = Strip(topic_analyzer_output[m].tool)
              /\ calls[i].query = Strip(topic_analyzer_output[m].query)
              /\ calls[i].outcome.kind = "raise"

\* the counter N of a key DD-MM-YYYY-N
KeyCounter(k) == IntValue(k.tail)

KeyWellFormed(entry) == entry.key.date = entry.day /\ IntParses(entry.key.tail)

\* C3 as stated: any two create_chat calls of one calendar day return distinct keys
\* of the form DD-MM-YYYY-N, the later counter strictly greater than the earlier.
CreateChatAlwaysIncreasing ==
    \A i, j \in 1..Len(created) :
        (i < j /\ created[i].day = created[j].day) =>
            /\ KeyWellFormed(created[i])
            /\ KeyWellFormed(created[j])
            /\ created[i].key # created[j].key
            /\ KeyCounter(created[j].key) > KeyCounter(created[i].key)

\* C3, amended: a create_chat call returns a key of the form DD-MM-YYYY-N that is
\* distinct from, and has a counter strictly greater than, the key of every
\* earlier create_chat call of the same calendar day whose session file still
\* exists when the later call is made.
CreateChatIncreasingOverExisting ==
    [][Len(created') = Len(created) + 1 =>
          LET e == created'[Len(created')]
          IN /\ KeyWellFormed(e)
             /\ \A i \in 1..Len(created) :
                  (created[i].day = e.day /\ chat_sessions[created[i].key] # NoFile) =>
                      /\ created[i].key # e.key
                      /\ KeyCounter(e.key) > KeyCounter(created[i].key)]_vars

\* two create_chat calls on one day, the first session still stored at the second
TwoCreatesSameDay ==
    /\ Len(created) = 2
    /\ created[1].day = created[2].day
    /\ chat_sessions[created[1].key] # NoFile
    /\ chat_sessions[created[2].key] # NoFile
    /\ resp = [op |-> "create_chat", status |-> 200, session_key |-> created[2].key]

\* the chunks of the collection whose source is the file
ChunksOf(coll, filename) == {i \in 1..Len(coll) : Basename(coll[i].source) = filename}

IsDeleteResponse(r) == r # None /\ r.op = "delete_document"

\* C4: delete_document(f) for f in the metadata map removes f from list() and
\* every index chunk whose source is f; for f absent from the metadata map it
\* returns a failure result without raising and changes neither the metadata map,
\* the index nor the uploaded files.
DeleteDocumentContract ==
    [][IsDeleteResponse(resp') =>
          LET f == resp'.filename
          IN /\ (f \in MetaKeys(metadata) /\ resp'.status = 200) =>
                    /\ resp'.result = "success"
                    /\ f \notin SeqRange(list_documents_from_vectorstore(metadata'))
                    /\ ChunksOf(collection', f) = {}
                    /\ \A g \in MetaKeys(metadata) \ {f} :
                         /\ g \in MetaKeys(metadata')
                         /\ Cardinality(ChunksOf(collection', g))
                                = Cardinality(ChunksOf(collection, g))
             /\ f \notin MetaKeys(metadata) =>
                    /\ resp'.status = 200
                    /\ resp'.result = "error"
                    /\ metadata' = metadata
                    /\ collection' = collection
                    /\ docs_dir' = docs_dir]_vars

\* a delete succeeded for a file that had been indexed while another file's chunks
\* stay in the index
DeletedOneOfTwo ==
    /\ IsDeleteResponse(resp)
    /\ resp.result = "success"
    /\ resp.filename \notin MetaKeys(metadata)
    /\ metadata # <<>>
    /\ collection # <<>>

\* C5 as stated: whichever capabilities are enabled, a planning, tool or
\* completion failure during a /chat request never escapes chat(): the request
\* still returns a text answer.
NoExceptionEscapesChat ==
    /\ pc # "raised"
    /\ (resp # None /\ resp.op = "chat") => resp.status = 200

\* C6 as stated: after any chat() call, whether or not the completion call
\* raised, the in-memory history has grown by nothing or by one human turn
\* followed by one assistant turn; it never ends with an unanswered human turn.
HistoryGrowsByPairOrNothing ==
    pc \in {"returned", "raised"} =>
        \/ chat_history = loaded_history
        \/ /\ Len(chat_history) = Len(loaded_history) + 2
           /\ SubSeq(chat_history, 1, Len(loaded_history)) = loaded_history
           /\ chat_history[Len(chat_history) - 1].type = "human"
           /\ chat_history[Len(chat_history)].type = "ai"

PlannerUnparseable ==
    /\ calls # <<>>
    /\ calls[1].call = "planner"
    /\ calls[1].outcome = "unparseable"

\* C7: when the planner output cannot be parsed the turn is aborted: no tool is
\* invoked, no synthesis call is made, the planner is not called again, the
\* answer is the error message and the history gains the user's query followed
\* by that error text as the assistant turn.
PlanningFailureAborts ==
    PlannerUnparseable =>
        /\ pc = "returned"
        /\ Len(calls) = 1
        /\ \E e \in Errors :
             /\ response_content =
                    <<"Sorry, an error occurred while processing your request: ">>
                        \o e \o <<"...">>
             /\ chat_history = loaded_history \o
                    <<HumanMessage(StrContent(req.query)), AIMessage(response_content)>>

\* the planner output was unparseable in a session that already holds turns
PlanningFailedAfterTurns ==
    /\ PlannerUnparseable
    /\ pc = "returned"
    /\ loaded_history # <<>>

\* the pairs the loop has to invoke for a plan: in plan order, stripped, without
\* the pairs of tools that are not enabled and without repetitions
RECURSIVE PairsToInvoke(_, _, _)
PairsToInvoke(plan, tools, seen) ==
    IF plan = <<>> THEN <<>>
    ELSE LET p == <<Strip(Head(plan).tool), Strip(Head(plan).query)>>
         IN IF p \in seen \/ p[1] \notin tools
            THEN PairsToInvoke(Tail(plan), tools, seen)
            ELSE <<p>> \o PairsToInvoke(Tail(plan), tools, seen \cup {p})

\* the context the successful calls of one kind of tool gathered, in call order
RECURSIVE GatheredContext(_, _)
GatheredContext(cs, rag) ==
    IF cs = <<>> THEN <<>>
    ELSE (IF /\ Head(cs).call = "tool"
             /\ Head(cs).outcome.kind = "ok"
             /\ (Head(cs).tool = <<"retrieve">>) = rag
          THEN ResultText(Head(cs).outcome.result,
                          IF rag THEN "page_content" ELSE "content")
          ELSE <<>>) \o GatheredContext(Tail(cs), rag)

SomeToolRaised == \E i \in ToolCallIndexes : calls[i].outcome.kind = "raise"

WellFormedPlan ==
    \A i \in 1..Len(topic_analyzer_output) : topic_analyzer_output[i].kind = "pair"

\* C8: when the invocation of a planned pair raises, the error is caught inside
\* the loop: every later planned pair that is not a duplicate and names an
\* enabled tool is still invoked, the synthesis call is still made with the
\* context gathered from the other pairs, and the turn returns a normal answer.
ToolFailureTolerated ==
    (pc = "returned" /\ SomeToolRaised /\ WellFormedPlan) =>
        LET expected == PairsToInvoke(topic_analyzer_output, ReqTools(req, vectordb), {})
            last == calls[Len(calls)]
        IN /\ Len(calls) = Len(expected) + 2
           /\ \A i \in 1..Len(expected) :
                /\ calls[i + 1].call = "tool"
                /\ <<calls[i + 1].tool, calls[i + 1].query>> = expected[i]
           /\ last.call = "completion"
           /\ last.messages[Len(last.messages)] =
                  HumanMessage(StrContent(ContextText(req.query,
                      FinalContext(GatheredContext(calls, TRUE),
                                   GatheredContext(calls, FALSE)))))
           /\ last.outcome = "ok" =>
                  /\ response_content \in {Strip(c) : c \in Completions}
                  /\ chat_history = loaded_history \o
                         <<HumanMessage(StrContent(req.query)),
                           AIMessage(response_content)>>

\* the first pair raised, a later pair was invoked and gave results, and the turn
\* returned the completion
AnsweredDespiteToolFailure ==
    /\ pc = "returned"
    /\ Len(calls) = 4
    /\ calls[2].call = "tool" /\ calls[2].outcome.kind = "raise"
    /\ calls[3].call = "tool" /\ calls[3].outcome.kind = "ok"
    /\ calls[3].outcome.result # <<>>
    /\ calls[4].call = "completion" /\ calls[4].outcome = "ok"

\* a stored conversation alternates human, assistant from a human turn, in pairs
Alternates(data) ==
    /\ Len(data) % 2 = 0
    /\ \A i \in 1..Len(data) : data[i].type = (IF i % 2 = 1 THEN "human" ELSE "ai")

\* C9: after any sequence of create_chat, chat, clear_chat and delete_chat
\* requests, failing chat requests included, every stored conversation file
\* holds an even-length turn sequence that alternates human, assistant, starting
\* with a human turn.
StoredHistoriesAlternate ==
    \A k \in DOMAIN chat_sessions :
        chat_sessions[k] # NoFile => Alternates(chat_sessions[k].data)

\* a /chat request failed while a session file holds an exchange
FailedChatBesideStoredExchange ==
    /\ resp = [op |-> "chat", status |-> 500]
    /\ \E k \in DOMAIN chat_sessions :
         chat_sessions[k] # NoFile /\ Len(chat_sessions[k].data) = 2

\* the stored history of a session key, [] when it has no file
StoredData(sessions, session_key) ==
    IF sessions[session_key] = NoFile THEN <<>> ELSE sessions[session_key].data

\* the step in which chat_with_pdf saves and answers appends the exchange
ExchangeAppended ==
    /\ chat_sessions'[req.session_key] # NoFile
    /\ StoredData(chat_sessions', req.session_key) =
           StoredData(chat_sessions, req.session_key) \o
               <<[type |-> "human", content |-> StrContent(req.query),
                  image_data |-> [kind |-> "absent"]],
                 [type |-> "ai", content |-> StrContent(resp'.response),
                  image_data |-> [kind |-> "absent"]]>>
    /\ \A k \in DOMAIN chat_sessions \ {req.session_key} :
         chat_sessions'[k] = chat_sessions[k]

ClearedSessionStaysEmpty ==
    [][\A k \in SessKeys :
          /\ (chat_sessions[k] # NoFile /\ ClearChat(k)) =>
                 chat_sessions'[k] = File(<<>>)
          /\ (chat_sessions[k] = File(<<>>) /\ GetChatHistory(k)) =>
                 resp' = [op |-> "chat_history", status |-> 200, history |-> <<>>]
          /\ (/\ chat_sessions[k] = File(<<>>)
              /\ ~(pc = "returned" /\ req.session_key = k)
              /\ ~DeleteChat(k)) =>
                 chat_sessions'[k] = File(<<>>)]_vars

\* chat_history answered [] for a session that no create_chat made: its file held
\* turns and was cleared, while the other session holds four turns
HistoryEmptyAfterClear ==
    /\ resp = [op |-> "chat_history", status |-> 200, history |-> <<>>]
    /\ created = <<>>
    /\ \E k \in SessKeys : chat_sessions[k] = File(<<>>)
    /\ \E k \in SessKeys : Len(StoredData(chat_sessions, k)) = 4

\* C14: chat_history on a session key without a file reports not-found (404),
\* clear_chat and delete_chat on such a key return success; none of the three
\* creates a file for the key or changes any other session.
MissingSessionHandling ==
    [][\A k \in SessKeys :
          chat_sessions[k] = NoFile =>
              /\ GetChatHistory(k) =>
                     /\ resp' = [op |-> "chat_history", status |-> 404]
                     /\ chat_sessions' = chat_sessions
              /\ ClearChat(k) =>
                     /\ resp' = [op |-> "clear_chat", status |-> 200]
                     /\ chat_sessions' = chat_sessions
              /\ DeleteChat(k) =>
                     /\ resp' = [op |-> "delete_chat", status |-> 200]
                     /\ chat_sessions' = chat_sessions]_vars

\* not-found was answered for a session without a file while another session
\* holds turns
NotFoundBesideStoredSession ==
    /\ resp = [op |-> "chat_history", status |-> 404]
    /\ \E k \in SessKeys : chat_sessions[k] = NoFile
    /\ \E k \in SessKeys : Len(StoredData(chat_sessions, k)) > 0

\* C15 as stated: list_chats returns exactly the session keys of the existing
\* conversation files, each a key that chat_history accepts for that session,
\* the most recently modified first.
ListChatsReturnsKeys ==
    (resp # None /\ resp.op = "list_chats") =>
        /\ resp.chat_sessions = mtimes
        /\ {resp.chat_sessions[i] : i \in 1..Len(resp.chat_sessions)}
               = ExistingChats(chat_sessions)
        /\ \A i \in 1..Len(resp.chat_sessions) :
               StoredFile(chat_sessions, resp.chat_sessions[i]) # NoFile

\* the source filenames that have at least one chunk in the index
IndexedFiles(coll) == {Basename(coll[i].source) : i \in 1..Len(coll)}

\* C12: after any sequence of completed upload and delete_document operations,
\* without crash or concurrency, the set of filenames list() returns equals the
\* set of source filenames that have at least one chunk in the vector index.
ListMatchesIndex ==
    /\ SeqRange(list_documents_from_vectorstore(metadata)) = IndexedFiles(collection)
    /\ (resp # None /\ resp.op = "list_vectorstore_docs") =>
           SeqRange(resp.documents) = IndexedFiles(collection)

\* list() answered the one file left after the file indexed first was deleted:
\* the chunk id the store assigned first is free again
ListedAfterDelete ==
    /\ resp # None /\ resp.op = "list_vectorstore_docs"
    /\ Len(resp.documents) = 1
    /\ Cardinality(docs_dir) = 1
    /\ Len(collection) > 1
    /\ \A i \in 1..Len(collection) : collection[i].id > 1

\* every file of the docs folder has exactly one metadata entry, and every
\* metadata entry names a file of the docs folder
OneEntryPerUploadedFile(dir, meta) ==
    /\ \A f \in dir : Cardinality({i \in 1..Len(meta) : meta[i].filename = f}) = 1
    /\ MetaKeys(meta) \subseteq dir

\* C13 as stated: after completed upload and delete_document requests each file
\* held in the uploaded-files directory has exactly one entry in the metadata
\* map, and each metadata entry names a file that was uploaded and not since
\* deleted.  Stated per request: a request that completes with success keeps it.
UploadedFilesHaveEntries ==
    [][(/\ OneEntryPerUploadedFile(docs_dir, metadata)
        /\ resp' # None
        /\ resp'.status = 200) =>
           OneEntryPerUploadedFile(docs_dir', metadata')]_vars

\* a process that answered a request with a user message: status 200 and the
\* exchange appended to what it had loaded
AnsweredExchange(w) ==
    /\ inflight[w].pc = "responded"
    /\ inflight[w].status = 200
    /\ Len(inflight[w].chat_history) = Len(inflight[w].loaded_history) + 2

\* both processes answered requests on one session from the same loaded history.
\* Every answered exchange lengthens the file and nothing here shortens it, so
\* each of the two loaded before the other saved
OverlappedExchanges(w, v) ==
    /\ w # v
    /\ AnsweredExchange(w) /\ AnsweredExchange(v)
    /\ inflight[w].session_key = inflight[v].session_key
    /\ inflight[w].loaded_history = inflight[v].loaded_history

DeletedDocument(w) ==
    /\ docops[w].op = "delete_document"
    /\ docops[w].pc = "responded"
    /\ docops[w].result = "success"
    /\ docops[w].saved_at > 0

UploadedDocs(w) ==
    /\ docops[w].op = "upload"
    /\ docops[w].pc = "responded"
    /\ docops[w].status = 200
    /\ docops[w].saved_at > 0

\* the files of an upload that got chunks
FilesWithChunks(w) ==
    {f \in SeqRange(docops[w].new_files_names) : docops[w].nchunks[f] > 0}

\* two completed document operations, each of which loaded the metadata map before
\* the other wrote it, so that neither loaded map shows the other's change: two
\* deletes of different files each listed in the other's map, or a delete of a
\* file listed in the map of an upload whose new files its own map does not list
OverlappedDocOps(w, v) ==
    /\ w # v
    /\ DeletedDocument(v)
    /\ \/ /\ DeletedDocument(w)
          /\ docops[w].filename # docops[v].filename
          /\ docops[w].filename \in MetaKeys(docops[v].loaded)
       \/ /\ UploadedDocs(w)
          /\ FilesWithChunks(w) # {}
          /\ FilesWithChunks(w) \cap MetaKeys(docops[v].loaded) = {}
          /\ docops[v].filename \notin SeqRange(docops[w].new_files_names)
    /\ docops[v].filename \in MetaKeys(docops[w].loaded)
    /\ docops[w].loaded_at < docops[v].saved_at
    /\ docops[v].loaded_at < docops[w].saved_at

\* C17: an upload and a delete, or two deletes of different files, whose
\* load-modify-save of the metadata map overlapped leave a map whose filenames are
\* not the filenames that have chunks in the index
OverlappingDocOpsDiverge ==
    \A w \in Workers, v \in Workers :
        OverlappedDocOps(w, v) => MetaKeys(metadata) # IndexedFiles(collection)

\* two overlapped deletes completed and the file deleted by the first to save is
\* listed again without a chunk
DeletedFileListedAgain ==
    \E w \in Workers, v \in Workers :
        /\ OverlappedDocOps(w, v)
        /\ DeletedDocument(w)
        /\ docops[w].saved_at < docops[v].saved_at
        /\ docops[w].filename \in MetaKeys(metadata)
        /\ ChunksOf(collection, docops[w].filename) = {}

\* an upload overlapped by a delete completed and its file has chunks but is not
\* listed
UploadedFileUnlisted ==
    \E w \in Workers, v \in Workers :
        /\ OverlappedDocOps(w, v)
        /\ UploadedDocs(w)
        /\ \E f \in FilesWithChunks(w) :
               /\ f \notin MetaKeys(metadata)
               /\ ChunksOf(collection, f) # {}

\* the process serving a delete died after the chunks were deleted and before the
\* metadata map was written
DiedBeforeMetadataWrite(w) ==
    /\ docops[w].pc = "crashed"
    /\ docops[w].op = "delete_document"
    /\ docops[w].at \in {"indexed", "removed"}

\* C18: the delete removes the chunks before it writes the metadata map; when the
\* process dies between the two, the filename stays in the map without a chunk in
\* the collection, every later list response names it, and the list and /chat
\* requests served afterwards change neither the map nor the collection
CrashedDeleteStaysListed ==
    \A w \in Workers :
        DiedBeforeMetadataWrite(w) =>
            /\ docops[w].filename \in MetaKeys(metadata)
            /\ ChunksOf(collection, docops[w].filename) = {}
            /\ docops[w].filename \notin IndexedFiles(collection)
            /\ (resp # None /\ resp.op = "list_vectorstore_docs") =>
                   docops[w].filename \in SeqRange(resp.documents)
            /\ (resp # None /\ resp.op = "chat") => resp.status = 200

\* after the process died between the two writes, a /chat request that retrieved
\* was answered and the file is still listed without a chunk
ChatAnsweredAfterCrashedDelete ==
    /\ \E w \in Workers :
           /\ DiedBeforeMetadataWrite(w)
           /\ docops[w].filename \in MetaKeys(metadata)
           /\ ChunksOf(collection, docops[w].filename) = {}
    /\ resp # None /\ resp.op = "chat" /\ resp.status = 200
    /\ Len(load_chat_history_json(chat_sessions[CrashKey])) = 2
    /\ Len(collection) > 0

\* the planner output is a list with an item that is not a (sub-query, tool) pair
\* of strings
MalformedPlan ==
    /\ pc \in {"execute", "returned", "raised"}
    /\ calls # <<>> /\ calls[1].call = "planner" /\ calls[1].outcome = "list"
    /\ ~WellFormedPlan

\* the turn ended in the except branch of chat(): the apology is the answer and the
\* history gained the query and the apology
EndedInApology ==
    \E e \in Errors :
        /\ response_content = Apology(e)
        /\ chat_history = loaded_history \o
               <<HumanMessage(StrContent(req.query)), AIMessage(response_content)>>

\* C19: a planner output that is not a list of (sub-query, tool-name) pairs of
\* strings is rejected before any tool is invoked: no tool call and no synthesis
\* call is made, no exception leaves chat(), and the turn ends with the apology
MalformedPlanRejectedFirst ==
    MalformedPlan =>
        /\ ToolCallIndexes = {}
        /\ \A i \in 1..Len(calls) : calls[i].call # "completion"
        /\ pc # "raised"
        /\ pc = "returned" => EndedInApology

\* the part of C19 that does not say when the output is rejected
MalformedPlanEndsInApology ==
    MalformedPlan =>
        /\ \A i \in 1..Len(calls) : calls[i].call # "completion"
        /\ pc # "raised"
        /\ pc = "returned" => EndedInApology

\* the search types the request lists, compared without case and outer whitespace
ListedTypes == {Strip(Lower(req.search_types[i])) : i \in 1..Len(req.search_types)}

\* the tools the request enables as C20 states it, and with the default the code
\* applies when web search is on and the list of types is empty
StatedTools ==
    (IF req.enable_rag /\ vectordb # None THEN {<<"retrieve">>} ELSE {})
        \cup (IF req.enable_web_search THEN SEARCH_TOOL_MAP \cap ListedTypes ELSE {})

EnabledTools ==
    StatedTools \cup (IF req.enable_web_search /\ req.search_types = <<>>
                      THEN {<<"web">>} ELSE {})

\* the planned pairs that name a tool outside a set
PairsOutside(tools) ==
    {i \in 1..Len(topic_analyzer_output) :
        /\ topic_analyzer_output[i].kind = "pair"
        /\ Strip(topic_analyzer_output[i].tool) \notin tools}

\* a turn with a well-formed plan returned: the pairs naming a tool outside the set
\* were passed over and the synthesis call was made
SkippedWithoutFailing(tools) ==
    (pc = "returned" /\ calls # <<>> /\ calls[1].call = "planner"
        /\ calls[1].outcome = "list" /\ WellFormedPlan /\ PairsOutside(tools) # {}) =>
        /\ calls[Len(calls)].call = "completion"
        /\ calls[Len(calls)].outcome = "ok" => ~EndedInApology

\* C20 as stated: a tool is invoked only if the request enables it, retrieve with
\* enable_rag and a vector store, a search tool with web search on and its type
\* listed in search_types; pairs naming other tools are skipped, the turn goes on
OnlyListedToolsInvoked ==
    /\ \A i \in ToolCallIndexes : calls[i].tool \in StatedTools
    /\ SkippedWithoutFailing(StatedTools)

\* C20, amended: as stated, and web is also enabled when web search is on and
\* search_types is empty
OnlyEnabledToolsInvoked ==
    /\ \A i \in ToolCallIndexes : calls[i].tool \in EnabledTools
    /\ SkippedWithoutFailing(EnabledTools)

\* a turn with web search on, retrieval off and no type listed invoked the web tool,
\* passed over a planned retrieve pair and returned the completion
WebInvokedRetrieveSkipped ==
    /\ pc = "returned"
    /\ req.enable_web_search /\ ~req.enable_rag /\ req.search_types = <<>>
    /\ \E i \in ToolCallIndexes : calls[i].tool = <<"web">>
    /\ \E i \in PairsOutside(EnabledTools) :
           Strip(topic_analyzer_output[i].tool) = <<"retrieve">>
    /\ calls[Len(calls)].call = "completion" /\ calls[Len(calls)].outcome = "ok"

-----------------------------------------------------------------------------
(* C21: the planned pairs are invoked one after another, in plan order *)

\* the planner returned a list and the loop over it started
PlanStarted == Len(calls) > 0 /\ calls[1].call = "planner" /\ calls[1].outcome = "list"

\* the items of the plan the loop has gone past
PlanDone == SubSeq(topic_analyzer_output, 1, idx - 1)

CompletionCallIndexes == {i \in 1..Len(calls) : calls[i].call = "completion"}

\* C21: within one turn the planned pairs are invoked one at a time in plan order:
\* at every point of the loop the tool calls made so far are exactly the pairs to
\* invoke among the items already passed, in that order and each with its outcome
\* (returned or raised) recorded before the next one; the document and web context
\* buffers hold the results in call order; and the completion call of the synthesis
\* is made at most once, last, and only when every planned item has been passed.
PairsInvokedInPlanOrder ==
    PlanStarted =>
        /\ \A i \in 1..(idx - 1) : topic_analyzer_output[i].kind = "pair"
        /\ LET expected == PairsToInvoke(PlanDone, ReqTools(req, vectordb), {})
           IN /\ Cardinality(ToolCallIndexes) = Len(expected)
              /\ \A i \in 1..Len(expected) :
                   /\ calls[i + 1].call = "tool"
                   /\ <<calls[i + 1].tool, calls[i + 1].query>> = expected[i]
                   /\ calls[i + 1].outcome.kind \in {"ok", "raise"}
              /\ retrieved_context = GatheredContext(calls, TRUE)
              /\ web_context = GatheredContext(calls, FALSE)
              /\ Cardinality(CompletionCallIndexes) <= 1
              /\ \A i \in CompletionCallIndexes :
                   /\ i = Len(calls)
                   /\ i = Len(expected) + 2
                   /\ idx = Len(topic_analyzer_output) + 1
                   /\ calls[i].messages[Len(calls[i].messages)] =
                          HumanMessage(StrContent(ContextText(req.query,
                              FinalContext(retrieved_context, web_context))))

\* two different sub-queries of the document tool were invoked in plan order, both
\* returned, the buffer holds their results in that order and the synthesis followed
TwoPairsThenSynthesis ==
    /\ pc = "returned"
    /\ PlanStarted
    /\ Len(calls) = 4
    /\ calls[2].call = "tool" /\ calls[2].tool = <<"retrieve">> /\ calls[2].query = <<"a">>
    /\ calls[3].call = "tool" /\ calls[3].tool = <<"retrieve">> /\ calls[3].query = <<"b">>
    /\ retrieved_context = ResultText(Retrieved(<<"a">>), "page_content")
                               \o ResultText(Retrieved(<<"b">>), "page_content")
    /\ calls[4].call = "completion" /\ calls[4].outcome = "ok"

-----------------------------------------------------------------------------
(* C22: an upload that failed, and the same file uploaded again *)

\* the filenames GET /list_vectorstore_docs returns
ListedDocs == IF vectorstore_exists THEN MetaKeys(metadata) ELSE {}

\* the answer to the previous request was a failed upload
UploadJustFailed == resp # None /\ resp.op = "upload" /\ resp.status = 500

\* C22 as stated: after an upload in which text extraction or indexing raised, the
\* failed file is not treated as already uploaded: the next upload request, when
\* nothing raises and every file yields text, answers success and leaves every
\* file of the request (the failed one included) listed by list().
FailedUploadCanBeRetried ==
    [][\A pdfs \in Uploads, nchunks \in [Filenames -> 1..MaxChunks] :
          (UploadJustFailed /\ UploadDocs(pdfs, nchunks, "none")) =>
              /\ resp'.status = 200
              /\ SeqRange(pdfs) \subseteq ListedDocs']_vars

-----------------------------------------------------------------------------
(* C24: the messages of the final completion request *)

\* C24 as stated: in every mode the messages of the completion request are the
\* system instruction, the history as it was before the turn, and the current
\* user turn exactly once.
UserTurnSentOnce ==
    \A i \in CompletionCallIndexes :
        LET messages == calls[i].messages
        IN /\ Len(messages) = Len(loaded_history) + 2
           /\ messages[1].type = "system"
           /\ SubSeq(messages, 2, Len(messages) - 1) = loaded_history
           /\ messages[Len(messages)].type = "human"

-----------------------------------------------------------------------------
(* C25: the image payload of the human turn chat() appends *)

\* the image entries image_data stands for: one for a str, one per element of a list
ImagesGiven(image_data) ==
    IF image_data.kind = "list" THEN image_data.v
    ELSE IF image_data.kind = "str" /\ image_data.v # <<>> THEN <<image_data.v>>
    ELSE <<>>

\* chat() has returned and appended a human turn to the history
HumanTurnAppended ==
    /\ pc = "returned"
    /\ Len(chat_history) > Len(loaded_history)
    /\ chat_history[Len(loaded_history) + 1].type = "human"

\* C25 as stated: the human turn chat() appends carries the same image payload on
\* the failure path as on the success path: for image data passed as a single
\* string exactly one image entry with that string, for a list one entry per
\* list element.
SameImagePayloadOnFailure ==
    HumanTurnAppended =>
        TurnOf(chat_history[Len(loaded_history) + 1]).images = ImagesGiven(req.image_data)

\* the same, on the paths that end with the completion's answer
SameImagePayloadOnSuccess ==
    (HumanTurnAppended /\ calls[Len(calls)].outcome = "ok") =>
        TurnOf(chat_history[Len(loaded_history) + 1]).images = ImagesGiven(req.image_data)

-----------------------------------------------------------------------------
(* C23: conversation requests and document requests keep to their own files *)

ConversationOps == {"create_chat", "chat", "clear_chat", "delete_chat", "chat_history"}
DocumentOps == {"upload", "delete_document", "list_vectorstore_docs"}

\* C23 as stated: no conversation operation, for any session-key string it is
\* given, changes the metadata map, the vector index or the uploaded-files
\* directory, and no document operation changes any conversation file.
RequestsKeepToTheirFiles ==
    [][/\ (resp' # None /\ resp'.op \in ConversationOps) => docVars' = docVars
       /\ (resp' # None /\ resp'.op \in DocumentOps) =>
              chat_sessions' = chat_sessions]_vars

\* the same for the session keys that are plain names: every request but
\* delete_chat with the path key
NamedSessionsKeepToTheirFiles ==
    [][~DeleteChatPath(MetadataKey) =>
          /\ (resp' # None /\ resp'.op \in ConversationOps) => docVars' = docVars
          /\ (resp' # None /\ resp'.op \in DocumentOps) =>
                 chat_sessions' = chat_sessions]_vars

-----------------------------------------------------------------------------
(* C26: a /chat request with a blank query and no image *)

\* C26 as stated, for the request: a /chat request with an empty or
\* whitespace-only query and no image is answered with the fixed 'Please provide
\* a query or image.' text, and the stored sessions are the same before and
\* after the request.
BlankQueryRequestAnswered ==
    [][\A k \in FrameKeys, q \in HttpQueries :
          (Strip(q) = <<>> /\ ChatWithPdf(k, q)) =>
              /\ resp'.status = 200
              /\ resp'.response = PleaseProvide
              /\ chat_sessions' = chat_sessions]_vars

\* chat() itself, entered with a blank query and no image: the fixed text, no
\* planner, tool or completion call, the history as it was loaded
BlankQueryReturnsEarly ==
    (pc \in {"standard", "analyze", "execute", "returned", "raised"}
        /\ Strip(req.query) = <<>> /\ ~ImageTruthy(req.image_data)) =>
        /\ pc = "returned"
        /\ response_content = PleaseProvide
        /\ calls = <<>>
        /\ chat_history = loaded_history

\* the save that follows chat() at main.py:99, after a blank query: the stored
\* sessions are the same before and after
BlankQueryKeepsStoredSessions ==
    [][(pc = "returned" /\ Strip(req.query) = <<>> /\ ChatRespond) =>
          chat_sessions' = chat_sessions]_vars

====
